---- MODULE Spec2Model ----
(***************************************************************************)
(* A model of clang-tidy-to-junit.py: the ClangTidyConverter class, its    *)
(* line classifier (convert / process_error) and its report serializer     *)
(* (print_junit_file).  Text is modelled as sequences of one-character     *)
(* strings so that the regular expressions, str.replace, str.join and      *)
(* xml.sax.saxutils.escape are computed, not assumed.                      *)
(***************************************************************************)
EXTENDS Integers, Sequences, FiniteSets, TLC

VARIABLES
    basename,       \* instance -> the prefix given to __init__
    calls,          \* the convert calls the process still has to make
    self,           \* the instance the running convert call is bound to
    input,          \* input_file of the running call, a sequence of lines
    pos,            \* index of the next line the for loop reads
    current_error,  \* the local list current_error of convert
    errors,         \* ClangTidyConverter.errors, the class attribute
    warnings,       \* number of logging.warning calls made so far
    output,         \* the writes made to output_file by the running call
    pc,             \* position of the process: idle, loop, print, done
    errors0,        \* history: errors as it was when the running call began
    warnings0,      \* history: warnings as it was when the running call began
    reprint         \* the writes of a further print_junit_file call made
                    \* after convert returned, to an output file of its own

vars == <<basename, calls, self, input, pos, current_error, errors,
          warnings, output, pc, errors0, warnings0, reprint>>

----------------------------------------------------------------------------
(* Bounds of the model.                                                    *)

MaxLines == 3
MaxPath == 4
MaxPrefix == 2
MaxSummary == 4
MaxCalls == 2
MaxRunLines == 1

----------------------------------------------------------------------------
(* Characters.                                                             *)

NL == "\n"

Digits == {"0", "1", "2", "3", "4", "5", "6", "7", "8", "9"}

Letters == {"a", "b", "c", "d", "e", "f", "g", "h", "i", "j", "k", "l", "m",
            "n", "o", "p", "q", "r", "s", "t", "u", "v", "w", "x", "y", "z"}

\* \w
WordChars == Letters \cup Digits \cup {"_"}

\* [\w\/\.\-\ ]
PathChars == WordChars \cup {"/", ".", "-", " "}

\* [\w\-,\.]
TagChars == WordChars \cup {"-", ",", "."}

\* The characters of the model in code point order (Python compares str by
\* code point).
Ascii == <<"\n", " ", "\"", "&", ",", "-", ".", "/",
           "0", "1", "2", "3", "4", "5", "6", "7", "8", "9",
           ":", ";", "<", ">", "[", "]", "^", "_",
           "a", "b", "c", "d", "e", "f", "g", "h", "i", "j", "k", "l", "m",
           "n", "o", "p", "q", "r", "s", "t", "u", "v", "w", "x", "y", "z">>

\* "." of a regular expression: any character but a newline
AnyChar == {Ascii[i] : i \in 1..Len(Ascii)} \ {NL}

Ord(c) == CHOOSE i \in 1..Len(Ascii) : Ascii[i] = c

\* s[a..b], empty when a > b
Slice(s, a, b) == [i \in 1..(IF b >= a THEN b - a + 1 ELSE 0) |-> s[a + i - 1]]

AllIn(s, S) == \A i \in 1..Len(s) : s[i] \in S

\* str < str
RECURSIVE StrLess(_, _)
StrLess(a, b) ==
    IF Len(b) = 0 THEN FALSE
    ELSE IF Len(a) = 0 THEN TRUE
    ELSE IF a[1] = b[1] THEN StrLess(Tail(a), Tail(b))
    ELSE Ord(a[1]) < Ord(b[1])

\* int(str) of a string of decimal digits
RECURSIVE ParseInt(_)
ParseInt(s) ==
    IF Len(s) = 0 THEN 0
    ELSE 10 * ParseInt(Slice(s, 1, Len(s) - 1)) + (Ord(s[Len(s)]) - Ord("0"))

\* str(int) of a natural number, as "{}".format writes it
RECURSIVE FormatInt(_)
FormatInt(n) ==
    IF n < 10 THEN <<Ascii[Ord("0") + n]>>
    ELSE Append(FormatInt(n \div 10), Ascii[Ord("0") + (n % 10)])

StartsWithAt(s, i, old) ==
    /\ i + Len(old) - 1 <= Len(s)
    /\ \A k \in 1..Len(old) : s[i + k - 1] = old[k]

\* A str.replace that stops after the first occurrence (count=1)
RECURSIVE ReplaceFirstFrom(_, _, _, _)
ReplaceFirstFrom(s, i, old, new) ==
    IF i > Len(s) THEN <<>>
    ELSE IF Len(old) > 0 /\ StartsWithAt(s, i, old)
         THEN new \o Slice(s, i + Len(old), Len(s))
         ELSE <<s[i]>> \o ReplaceFirstFrom(s, i + 1, old, new)

ReplaceFirst(s, old, new) == ReplaceFirstFrom(s, 1, old, new)

\* str.replace(old, new): every non-overlapping occurrence, left to right.
\* With old empty, new is inserted around every character; the program only
\* calls it so with new empty, which leaves s as it is.
RECURSIVE ReplaceFrom(_, _, _, _)
ReplaceFrom(s, i, old, new) ==
    IF i > Len(s) THEN (IF Len(old) = 0 THEN new ELSE <<>>)
    ELSE IF Len(old) = 0
         THEN new \o <<s[i]>> \o ReplaceFrom(s, i + 1, old, new)
    ELSE IF StartsWithAt(s, i, old)
         THEN new \o ReplaceFrom(s, i + Len(old), old, new)
         ELSE <<s[i]>> \o ReplaceFrom(s, i + 1, old, new)

Replace(s, old, new) == ReplaceFrom(s, 1, old, new)

\* "\n".join(list)
RECURSIVE Join(_)
Join(ls) ==
    IF Len(ls) = 0 THEN <<>>
    ELSE IF Len(ls) = 1 THEN ls[1]
    ELSE ls[1] \o <<NL>> \o Join(Tail(ls))

----------------------------------------------------------------------------
(* The regular expressions.                                                *)

\* Where "$" can match: at the end of the string, or just before a newline
\* that is its last character.  The result is the text before that place.
Dollar(line) ==
    IF Len(line) > 0 /\ line[Len(line)] = NL
    THEN {line, Slice(line, 1, Len(line) - 1)}
    ELSE {line}

Colons(s) == {i \in 1..Len(s) : s[i] = ":"}

NextColon(s, i) ==
    IF \E j \in Colons(s) : j > i
    THEN CHOOSE j \in Colons(s) : j > i /\ \A k \in Colons(s) : k > i => j <= k
    ELSE 0

IsNumber(s) == Len(s) > 0 /\ AllIn(s, Digits)

\* start_regex.search(line): ":\d+:\d+:" somewhere in the line
StartRegexSearch(line) ==
    \E i \in Colons(line) :
        LET j == NextColon(line, i)
            k == IF j = 0 THEN 0 ELSE NextColon(line, j)
        IN  /\ j # 0 /\ k # 0
            /\ IsNumber(Slice(line, i + 1, j - 1))
            /\ IsNumber(Slice(line, j + 1, k - 1))

\* Index of the "[" of a bracket tag "\[[\w\-,\.]+\]" that ends s, 0 if s
\* does not end with one.
TagStart(s) ==
    IF Len(s) >= 3 /\ s[Len(s)] = "]" /\ \E b \in 1..Len(s) : s[b] = "["
    THEN LET b == CHOOSE b \in 1..Len(s) :
                      s[b] = "[" /\ \A c \in (b + 1)..Len(s) : s[c] # "["
         IN  IF b + 1 <= Len(s) - 1 /\ AllIn(Slice(s, b + 1, Len(s) - 1), TagChars)
             THEN b ELSE 0
    ELSE 0

\* The value of re.M, which convert passes to search() where a compiled
\* pattern takes the position to start searching at.
ReM == 8

\* main_error_identifier.search(line, re.M): a bracket tag at "$" that starts
\* at (0-based) index re.M or later
MainErrorIdentifierSearch(line) ==
    \E s \in Dollar(line) : TagStart(s) > ReM

\* error_regex.match(s) for the text s before "$": the five groups, or
\* <<>> when there is no match.
ErrorRegexGroups(s) ==
    LET i == NextColon(s, 0)
        j == IF i = 0 THEN 0 ELSE NextColon(s, i)
        k == IF j = 0 THEN 0 ELSE NextColon(s, j)
        b == TagStart(s)
    IN  IF /\ i > 1 /\ j # 0 /\ k # 0 /\ b # 0
           /\ AllIn(Slice(s, 1, i - 1), PathChars)
           /\ IsNumber(Slice(s, i + 1, j - 1))
           /\ IsNumber(Slice(s, j + 1, k - 1))
           /\ k + 1 <= Len(s) /\ s[k + 1] = " "
           /\ b >= k + 4
           /\ s[b - 1] = " "
           /\ AllIn(Slice(s, k + 2, b - 2), AnyChar)
        THEN <<Slice(s, 1, i - 1), Slice(s, i + 1, j - 1),
               Slice(s, j + 1, k - 1), Slice(s, k + 2, b - 2),
               Slice(s, b, Len(s))>>
        ELSE <<>>

\* error_regex.match(line)
ErrorRegexMatch(line) ==
    IF \E s \in Dollar(line) : ErrorRegexGroups(s) # <<>>
    THEN ErrorRegexGroups(CHOOSE s \in Dollar(line) : ErrorRegexGroups(s) # <<>>)
    ELSE <<>>

----------------------------------------------------------------------------
(* process_error.                                                          *)

\* An ErrorDescription whose file is the summary group
ErrorDescriptionFileFromSummary(groups, prefix, rest) ==
    [file             |-> Replace(groups[4], prefix, <<>>),
     line             |-> ParseInt(groups[2]),
     column           |-> ParseInt(groups[3]),
     error            |-> groups[4],
     error_identifier |-> groups[5],
     description      |-> Join(rest)]

\* An ErrorDescription that counts lines and columns from zero
ErrorDescriptionZeroBased(groups, prefix, rest) ==
    [file             |-> Replace(groups[1], prefix, <<>>),
     line             |-> ParseInt(groups[2]) - 1,
     column           |-> ParseInt(groups[3]) - 1,
     error            |-> groups[4],
     error_identifier |-> groups[5],
     description      |-> Join(rest)]

\* An ErrorDescription with the line and column groups exchanged
ErrorDescriptionSwapsLineColumn(groups, prefix, rest) ==
    [file             |-> Replace(groups[1], prefix, <<>>),
     line             |-> ParseInt(groups[3]),
     column           |-> ParseInt(groups[2]),
     error            |-> groups[4],
     error_identifier |-> groups[5],
     description      |-> Join(rest)]

\* ErrorDescription(file, line, column, error, error_identifier, description)
\* built from the match of error_array[0] and the rest of error_array
ErrorDescription(groups, prefix, rest) ==
    [file             |-> Replace(groups[1], prefix, <<>>),
     line             |-> ParseInt(groups[2]),
     column           |-> ParseInt(groups[3]),
     error            |-> groups[4],
     error_identifier |-> groups[5],
     description      |-> Join(rest)]

\* Whether process_error(error_array) logs its warning
ProcessErrorWarns(error_array) ==
    Len(error_array) > 0 /\ ErrorRegexMatch(error_array[1]) = <<>>

\* process_error that keeps a sequence it cannot match, as a record of its
\* first line
ProcessErrorKeepsUnmatched(errs, error_array, prefix) ==
    IF Len(error_array) = 0 THEN errs
    ELSE IF ErrorRegexMatch(error_array[1]) = <<>>
         THEN Append(errs, [file |-> error_array[1], line |-> 0, column |-> 0,
                            error |-> <<>>, error_identifier |-> <<>>,
                            description |-> Join(Tail(error_array))])
    ELSE Append(errs, ErrorDescription(ErrorRegexMatch(error_array[1]), prefix,
                                       Tail(error_array)))

\* process_error with "len(error_array) <= 1" for its first test
ProcessErrorSkipsBareHeader(errs, error_array, prefix) ==
    IF Len(error_array) <= 1 THEN errs
    ELSE IF ErrorRegexMatch(error_array[1]) = <<>> THEN errs
    ELSE Append(errs, ErrorDescription(ErrorRegexMatch(error_array[1]), prefix,
                                       Tail(error_array)))

\* self.errors after process_error(error_array) on an instance whose
\* basename is prefix
ProcessError(errs, error_array, prefix) ==
    IF Len(error_array) = 0 THEN errs
    ELSE IF ErrorRegexMatch(error_array[1]) = <<>> THEN errs
    ELSE Append(errs, ErrorDescription(ErrorRegexMatch(error_array[1]), prefix,
                                       Tail(error_array)))

----------------------------------------------------------------------------
(* print_junit_file.                                                       *)

\* xml.sax.saxutils.escape(data, entities): "&", ">" and "<" first, in that
\* order, then the caller's entities
RECURSIVE ApplyEntities(_, _)
ApplyEntities(data, entities) ==
    IF Len(entities) = 0 THEN data
    ELSE ApplyEntities(Replace(data, entities[1][1], entities[1][2]),
                       Tail(entities))

\* An escape that replaces "&" after the other characters
EscapeAmpersandLast(data, entities) ==
    ApplyEntities(data, <<<< <<">">>, <<"&", "g", "t", ";">> >>,
                          << <<"<">>, <<"&", "l", "t", ";">> >> >> \o entities
                        \o <<<< <<"&">>, <<"&", "a", "m", "p", ";">> >> >>)

Escape(data, entities) ==
    ApplyEntities(data, <<<< <<"&">>, <<"&", "a", "m", "p", ";">> >>,
                          << <<">">>, <<"&", "g", "t", ";">> >>,
                          << <<"<">>, <<"&", "l", "t", ";">> >> >> \o entities)

\* entities={"\"": "&quot;"}
QuoteEntity == << << <<"\"">>, <<"&", "q", "u", "o", "t", ";">> >> >>

\* An insertion that is not stable: an element goes before the elements
\* already placed whose file is equal
RECURSIVE InsertBeforeEqual(_, _)
InsertBeforeEqual(sorted, x) ==
    IF Len(sorted) = 0 THEN <<x>>
    ELSE IF ~StrLess(sorted[1].file, x.file) THEN <<x>> \o sorted
    ELSE <<sorted[1]>> \o InsertBeforeEqual(Tail(sorted), x)

\* sorted(list, key=lambda x: x.file): a stable sort, so an element goes
\* after the elements already placed whose file is not greater
RECURSIVE InsertByFile(_, _)
InsertByFile(sorted, x) ==
    IF Len(sorted) = 0 THEN <<x>>
    ELSE IF StrLess(x.file, sorted[1].file) THEN <<x>> \o sorted
    ELSE <<sorted[1]>> \o InsertByFile(Tail(sorted), x)

RECURSIVE SortedByFileFrom(_, _)
SortedByFileFrom(done, rest) ==
    IF Len(rest) = 0 THEN done
    ELSE SortedByFileFrom(InsertByFile(done, rest[1]), Tail(rest))

\* print_junit_file without its sorted() call
Unsorted(errs) == errs

SortedByFile(errs) == SortedByFileFrom(<<>>, errs)

\* itertools.groupby(list, key=lambda x: x.file): the runs of consecutive
\* elements with equal file, each as [file, errors]
RECURSIVE GroupByFile(_)
GroupByFile(list) ==
    IF Len(list) = 0 THEN <<>>
    ELSE LET rest == GroupByFile(Tail(list))
         IN  IF Len(rest) > 0 /\ rest[1].file = list[1].file
             THEN <<[file |-> list[1].file, errors |-> <<list[1]>> \o rest[1].errors]>>
                  \o Tail(rest)
             ELSE <<[file |-> list[1].file, errors |-> <<list[1]>>]>> \o rest

\* "[{}/{}] {}".format(error.line, error.column, error.error_identifier)
TestcaseId(error) ==
    <<"[">> \o FormatInt(error.line) \o <<"/">> \o FormatInt(error.column)
           \o <<"]", " ">> \o error.error_identifier

\* The write of one <testcase> element
TestcaseWrite(error) ==
    [el      |-> "testcase",
     id      |-> TestcaseId(error),
     name    |-> TestcaseId(error),
     time    |-> <<"0">>,
     message |-> Escape(error.error, QuoteEntity),
     body    |-> Escape(error.description, <<>>)]

\* error_count of a group: len(errors) of the group's list
GroupCount(group) == Len(group.errors)

\* The writes for one group: the <testsuite> tag, its test cases, its end tag
TestsuiteWrites(group) ==
    <<[el       |-> "testsuite",
       errors   |-> FormatInt(GroupCount(group)),
       name     |-> group.file,
       tests    |-> FormatInt(GroupCount(group)),
       failures |-> <<"0">>,
       time     |-> <<"0">>]>>
    \o [i \in 1..Len(group.errors) |-> TestcaseWrite(group.errors[i])]
    \o <<[el |-> "/testsuite"]>>

RECURSIVE Concat(_)
Concat(ss) == IF Len(ss) = 0 THEN <<>> ELSE ss[1] \o Concat(Tail(ss))

\* The groups print_junit_file iterates over
Groups(errs) == GroupByFile(SortedByFile(errs))

\* An error_count that counts the files, not the errors
RootCountsFiles(errs) == Len(GroupByFile(SortedByFile(errs)))

\* error_count of the header write
RootCount(errs) == Len(errs)

\* Everything print_junit_file(output_file) writes, one element per write
PrintJunitFile(errs) ==
    <<[el       |-> "testsuites",
       id       |-> <<"1">>,
       name     |-> "Clang-Tidy",
       tests    |-> FormatInt(RootCount(errs)),
       errors   |-> FormatInt(RootCount(errs)),
       failures |-> <<"0">>,
       time     |-> <<"0">>]>>
    \o Concat([g \in 1..Len(Groups(errs)) |-> TestsuiteWrites(Groups(errs)[g])])
    \o <<[el |-> "/testsuites"]>>

----------------------------------------------------------------------------
(* The inputs: what the process is given.                                  *)

Inst == {1, 2}

Seqs(S, n) == UNION {[1..k -> S] : k \in 0..n}

Strings(S, lo, hi) == UNION {[1..k -> S] : k \in lo..hi}

\* A header line as clang-tidy prints it
Header(path, ln, col, msg, tag) ==
    path \o <<":">> \o ln \o <<":">> \o col \o <<":", " ">> \o msg \o <<" ">>
         \o tag \o <<NL>>

\* Lines of a clang-tidy run, each with its line terminator
HeaderB1 == Header(<<"p", "/", "b">>, <<"1">>, <<"2">>, <<"m">>, <<"[", "t", "]">>)
HeaderA == Header(<<"p", "/", "a">>, <<"3">>, <<"4">>, <<"n">>, <<"[", "u", "]">>)
HeaderB2 == Header(<<"p", "/", "b">>, <<"0">>, <<"6">>, <<"o">>, <<"[", "v", "]">>)
\* file-related and ending in a bracket tag, but no header: "n: b:1:2: m [t]"
TaggedNote == <<"n", ":", " ">> \o Header(<<"b">>, <<"1">>, <<"2">>, <<"m">>, <<"[", "t", "]">>)
\* file-related, no bracket tag: "b:1:2: n"
PlainNote == <<"b", ":", "1", ":", "2", ":", " ", "n", NL>>
\* file-related, with a bracket tag that starts before index re.M: ":1:2:[t]"
ShortTagged == <<":", "1", ":", "2", ":", "[", "t", "]", NL>>
Snippet == <<" ", " ", "x", NL>>
Blank == <<NL>>

Catalogue == {HeaderB1, HeaderA, HeaderB2, TaggedNote, PlainNote, ShortTagged,
              Snippet, Blank}

PrefixP == <<"p", "/">>

\* The lines a text stream yields: every line ends with its terminator,
\* except the last one when the text does not end with a newline
Stream(ls, nl) ==
    IF nl \/ Len(ls) = 0 \/ Len(ls[Len(ls)]) <= 1 THEN ls
    ELSE [ls EXCEPT ![Len(ls)] = Slice(ls[Len(ls)], 1, Len(ls[Len(ls)]) - 1)]

Script(prefixes, cs) == [basename |-> prefixes, calls |-> cs]

\* One call on mixed lines
ClassifyScripts ==
    {Script([i \in Inst |-> PrefixP], <<[inst |-> 1, input |-> Stream(ls, nl)]>>) :
        ls \in Seqs(Catalogue, MaxLines), nl \in BOOLEAN}

PathAlphabet == {"p", "/", "a"}

\* Prefixes no path can contain
MarkupPrefixes == {<<"<">>, <<"&", "/">>}

\* One call on one header line, over paths and prefixes
PathScripts ==
    {Script([i \in Inst |-> pre],
            <<[inst |-> 1,
               input |-> <<Header(path, <<"1">>, <<"2">>, <<"m">>, <<"[", "t", "]">>)>>]>>) :
        path \in Strings(PathAlphabet, 1, MaxPath),
        pre \in Strings(PathAlphabet, 0, MaxPrefix) \cup MarkupPrefixes}

EscAlphabet == {"<", ">", "&", "\"", "l", "t", ";"}

\* One call on one header line, over summaries
EscapeScripts ==
    {Script([i \in Inst |-> PrefixP],
            <<[inst |-> 1,
               input |-> <<Header(<<"a">>, <<"1">>, <<"2">>, msg, <<"[", "t", "]">>)>>]>>) :
        msg \in Strings(EscAlphabet, 1, MaxSummary)}

\* The scenario of the specification's section 8
ScenarioHeader1 == <<"f","o","o","/","b","a","r",".","c","p","p",":","1","0",":","5",":"," ","v","a","r","i","a","b","l","e"," ","u","n","u","s","e","d"," ","[","u","n","u","s","e","d","-","v","a","r","]","\n">>
ScenarioIndented1 == <<" "," "," "," ","i","n","t"," ","x",";","\n">>
ScenarioIndented2 == <<" "," "," "," ","^","\n">>
ScenarioHeader2 == <<"f","o","o","/","b","a","r",".","c","p","p",":","2","0",":","1",":"," ","m","i","s","s","i","n","g"," ","r","e","t","u","r","n"," ","[","m","i","s","s","i","n","g","-","r","e","t","u","r","n","]","\n">>
ScenarioInput == <<ScenarioHeader1, ScenarioIndented1, ScenarioIndented2, Blank,
                   ScenarioHeader2>>
ScenarioPrefix == <<"f", "o", "o", "/">>

ScenarioScripts ==
    {Script([i \in Inst |-> ScenarioPrefix],
            <<[inst |-> 1, input |-> Stream(ScenarioInput, nl)]>>) : nl \in BOOLEAN}

\* Several calls in one process, on either instance
RunCatalogue == {HeaderB1, Snippet}

RunScripts ==
    {Script(<<PrefixP, <<>>>>, cs) :
        cs \in Seqs([inst : Inst, input : Seqs(RunCatalogue, MaxRunLines)], MaxCalls)}

\* The families of scripts a process is started with
Families == {"classify", "path", "escape", "scenario", "run"}

Scripts(family) ==
    CASE family = "classify" -> ClassifyScripts
      [] family = "path" -> PathScripts
      [] family = "escape" -> EscapeScripts
      [] family = "scenario" -> ScenarioScripts
      [] family = "run" -> RunScripts

----------------------------------------------------------------------------
(* The process.                                                            *)

\* The class body and the constructions: errors = [] once for the class,
\* self.basename per instance
Init ==
    /\ \E family \in Families : \E sc \in Scripts(family) :
           basename = sc.basename /\ calls = sc.calls
    /\ self = 1
    /\ input = <<>>
    /\ pos = 1
    /\ current_error = <<>>
    /\ errors = <<>>
    /\ warnings = 0
    /\ output = <<>>
    /\ pc = "idle"
    /\ errors0 = <<>>
    /\ warnings0 = 0
    /\ reprint = <<>>

\* convert(input_file, output_file) is called: current_error = []
Convert ==
    /\ pc \in {"idle", "done"}
    /\ Len(calls) > 0
    /\ self' = calls[1].inst
    /\ input' = calls[1].input
    /\ calls' = Tail(calls)
    /\ pos' = 1
    /\ current_error' = <<>>
    /\ output' = <<>>
    /\ errors0' = errors
    /\ warnings0' = warnings
    /\ reprint' = <<>>
    /\ pc' = "loop"
    /\ UNCHANGED <<basename, errors, warnings>>

\* Whether the loop body treats line as the start of an error
StartsError(line) == StartRegexSearch(line) /\ MainErrorIdentifierSearch(line)

\* A loop body that appends only the file-related lines
AppendsFileRelatedOnly(line, cur) ==
    StartRegexSearch(line) /\ ~MainErrorIdentifierSearch(line)

\* A loop body with "len(current_error) == 0" for the test of its elif
AppendsPlainWhenEmpty(line, cur) ==
    IF StartRegexSearch(line) THEN ~MainErrorIdentifierSearch(line)
    ELSE Len(cur) = 0

\* A loop body without the "len(current_error) > 0" test of its elif
AppendsAlways(line, cur) ==
    IF StartRegexSearch(line) THEN ~MainErrorIdentifierSearch(line)
    ELSE TRUE

\* Whether the loop body appends line to current_error
Appends(line, cur) ==
    IF StartRegexSearch(line) THEN ~MainErrorIdentifierSearch(line)
    ELSE Len(cur) > 0

\* A loop body that writes the report each time it seals a sequence
ReadLineWritesAsItGoes ==
    /\ pc = "loop"
    /\ pos <= Len(input)
    /\ LET line == input[pos]
       IN  IF StartsError(line)
           THEN /\ errors' = ProcessError(errors, current_error, basename[self])
                /\ warnings' = warnings + (IF ProcessErrorWarns(current_error) THEN 1 ELSE 0)
                /\ current_error' = <<line>>
                /\ output' = PrintJunitFile(errors')
           ELSE /\ current_error' = (IF Appends(line, current_error)
                                     THEN Append(current_error, line)
                                     ELSE current_error)
                /\ UNCHANGED <<errors, warnings, output>>
    /\ pos' = pos + 1
    /\ UNCHANGED <<basename, calls, self, input, pc, errors0, warnings0, reprint>>

\* One iteration of "for line in input_file"
ReadLine ==
    /\ pc = "loop"
    /\ pos <= Len(input)
    /\ LET line == input[pos]
       IN  IF StartsError(line)
           THEN /\ errors' = ProcessError(errors, current_error, basename[self])
                /\ warnings' = warnings + (IF ProcessErrorWarns(current_error) THEN 1 ELSE 0)
                /\ current_error' = <<line>>
           ELSE /\ current_error' = (IF Appends(line, current_error)
                                     THEN Append(current_error, line)
                                     ELSE current_error)
                /\ UNCHANGED <<errors, warnings>>
    /\ pos' = pos + 1
    /\ UNCHANGED <<basename, calls, self, input, output, pc, errors0, warnings0,
                   reprint>>

\* After the loop: process what is left in current_error
EndOfInput ==
    /\ pc = "loop"
    /\ pos > Len(input)
    /\ IF Len(current_error) > 0
       THEN /\ errors' = ProcessError(errors, current_error, basename[self])
            /\ warnings' = warnings + (IF ProcessErrorWarns(current_error) THEN 1 ELSE 0)
       ELSE UNCHANGED <<errors, warnings>>
    /\ pc' = "print"
    /\ UNCHANGED <<basename, calls, self, input, pos, current_error, output, errors0,
                   warnings0, reprint>>

\* A print_junit_file that sorts the collection in place:
\* self.errors.sort(key=lambda x: x.file)
ErrorsSortedInPlace(errs) == SortedByFile(errs)

\* self.errors after print_junit_file: the method only reads it (sorted()
\* and list() build new lists)
ErrorsAfterPrint(errs) == errs

\* self.print_junit_file(output_file), and convert returns
PrintJunit ==
    /\ pc = "print"
    /\ output' = PrintJunitFile(errors)
    /\ errors' = ErrorsAfterPrint(errors)
    /\ pc' = "done"
    /\ UNCHANGED <<basename, calls, self, input, pos, current_error,
                   warnings, errors0, warnings0, reprint>>

\* print_junit_file(other_file) called once more on the instance after
\* convert has returned
PrintAgain ==
    /\ pc = "done"
    /\ reprint = <<>>
    /\ reprint' = PrintJunitFile(errors)
    /\ errors' = ErrorsAfterPrint(errors)
    /\ UNCHANGED <<basename, calls, self, input, pos, current_error,
                   warnings, output, pc, errors0, warnings0>>

Next == Convert \/ ReadLine \/ EndOfInput \/ PrintJunit \/ PrintAgain

Spec == Init /\ [][Next]_vars

----------------------------------------------------------------------------
(* What the properties are stated in.                                      *)

\* A line that matches the full header pattern
IsHeader(line) == ErrorRegexMatch(line) # <<>>

\* The positions of the header lines of an input, in input order
HeaderPositions(in) ==
    SelectSeq([i \in 1..Len(in) |-> i], LAMBDA i : IsHeader(in[i]))

NumHeaders(in) == Len(HeaderPositions(in))

\* The lines after the k-th header line, up to the next header line or the
\* end of the input
LinesAfterHeader(in, k) ==
    LET hs == HeaderPositions(in)
    IN  Slice(in, hs[k] + 1, (IF k < Len(hs) THEN hs[k + 1] ELSE Len(in) + 1) - 1)

\* The records appended by the running call
OwnRecords == Slice(errors, Len(errors0) + 1, Len(errors))

\* The running call has returned, and it began with an empty collection
DoneFresh == pc = "done" /\ errors0 = <<>>

----------------------------------------------------------------------------
(* Detail accumulation.                                                    *)

\* C1: every record's detail is exactly the lines that follow its header
\* line, up to the next line matching the full header pattern or the end of
\* the input, in order (joined as the program joins them); none is dropped.
C1_DetailIsLinesUpToNextHeader ==
    DoneFresh =>
        /\ Len(errors) = NumHeaders(input)
        /\ \A k \in 1..NumHeaders(input) :
               k <= Len(errors) =>
                   errors[k].description = Join(LinesAfterHeader(input, k))

\* C2 as stated: records = header lines - sealed sequences that fail
\* re-validation (each of which logs one warning).
C2_RecordsAreHeadersMinusFailed ==
    DoneFresh => Len(errors) = NumHeaders(input) - (warnings - warnings0)

\* C2, amended: after one conversion on a fresh collection the number of
\* records equals the number of input lines matching the full header
\* pattern; the sequences that fail re-validation subtract nothing.
C2_RecordsAreHeaders ==
    DoneFresh => Len(errors) = NumHeaders(input)

\* A conversion that dropped a sequence and still produced a record
C2_Witness ==
    DoneFresh /\ warnings > warnings0 /\ Len(errors) > 0

\* C3: the report of a call holds exactly the records of that call's own
\* input; no record sealed by an earlier call appears in it or is counted.
C3_ReportHoldsOwnRecordsOnly ==
    pc = "done" => output = PrintJunitFile(OwnRecords)

----------------------------------------------------------------------------
(* The report, as a reader of the document sees it.                        *)

RECURSIVE CasesFrom(_, _)
CasesFrom(out, i) ==
    IF i <= Len(out) /\ out[i].el = "testcase"
    THEN <<out[i]>> \o CasesFrom(out, i + 1)
    ELSE <<>>

\* The <testsuite> elements of a report in document order, each with its
\* start tag and the <testcase> elements it encloses
Suites(out) ==
    LET at == SelectSeq([i \in 1..Len(out) |-> i],
                        LAMBDA i : out[i].el = "testsuite")
    IN  [g \in 1..Len(at) |-> [tag |-> out[at[g]], cases |-> CasesFrom(out, at[g] + 1)]]

\* All <testcase> elements of a report in document order
Cases(out) == SelectSeq(out, LAMBDA w : w.el = "testcase")

RecordsOfFile(errs, file) == SelectSeq(errs, LAMBDA e : e.file = file)

Range(f) == {f[i] : i \in DOMAIN f}

RECURSIVE Sum(_)
Sum(ns) == IF Len(ns) = 0 THEN 0 ELSE ns[1] + Sum(Tail(ns))

\* C4: the report has exactly one group per distinct file value, every
\* record is in the group of its file and in no other, and the groups are in
\* ascending lexicographic order of file.
C4_OneGroupPerFileAscending ==
    pc = "done" =>
        LET suites == Suites(output)
        IN  /\ \A g, h \in 1..Len(suites) :
                   g < h => StrLess(suites[g].tag.name, suites[h].tag.name)
            /\ {suites[g].tag.name : g \in 1..Len(suites)}
                   = {errors[k].file : k \in 1..Len(errors)}
            /\ \A g \in 1..Len(suites) :
                   LET own == RecordsOfFile(errors, suites[g].tag.name)
                   IN  /\ Len(suites[g].cases) = Len(own)
                       /\ Range(suites[g].cases)
                              = {TestcaseWrite(own[k]) : k \in 1..Len(own)}
            /\ Len(Cases(output)) = Len(errors)

\* Records of two files that arrive out of order, one file twice
C4_Witness ==
    /\ pc = "done"
    /\ Len(errors) = 3
    /\ errors[1].file = errors[3].file
    /\ StrLess(errors[2].file, errors[1].file)
    /\ Len(Suites(output)) = 2

\* C5: within each group the records are written in the order in which they
\* were sealed.
C5_GroupKeepsSealingOrder ==
    pc = "done" =>
        \A g \in 1..Len(Suites(output)) :
            LET suite == Suites(output)[g]
                own == RecordsOfFile(errors, suite.tag.name)
            IN  suite.cases = [k \in 1..Len(own) |-> TestcaseWrite(own[k])]

\* A group of two different records, written after a group sealed later
C5_Witness ==
    /\ pc = "done"
    /\ \E g \in 1..Len(Suites(output)) :
           /\ g > 1
           /\ Len(Suites(output)[g].cases) = 2
           /\ Suites(output)[g].cases[1] # Suites(output)[g].cases[2]

\* C6: the root's "tests" and "errors" are the number of records, each
\* group's "tests" and "errors" are the number of records in the group, the
\* group counts add up to the root count, and "failures" is 0 everywhere.
C6_CountsMatch ==
    pc = "done" =>
        LET suites == Suites(output)
        IN  /\ Len(output) > 0 /\ output[1].el = "testsuites"
            /\ ParseInt(output[1].tests) = Len(errors)
            /\ ParseInt(output[1].errors) = Len(errors)
            /\ output[1].failures = <<"0">>
            /\ \A g \in 1..Len(suites) :
                   /\ ParseInt(suites[g].tag.tests) = Len(suites[g].cases)
                   /\ ParseInt(suites[g].tag.errors) = Len(suites[g].cases)
                   /\ Len(suites[g].cases)
                          = Len(RecordsOfFile(errors, suites[g].tag.name))
                   /\ suites[g].tag.failures = <<"0">>
            /\ Sum([g \in 1..Len(suites) |-> ParseInt(suites[g].tag.tests)])
                   = ParseInt(output[1].tests)

\* A report with groups of different sizes
C6_Witness ==
    /\ pc = "done"
    /\ Len(Suites(output)) = 2
    /\ Len(Suites(output)[1].cases) = 1
    /\ Len(Suites(output)[2].cases) = 2

----------------------------------------------------------------------------
(* Escaping.                                                               *)

\* The predefined entities a document parser decodes
XmlEntities ==
    << << <<"&", "a", "m", "p", ";">>, "&" >>,
       << <<"&", "l", "t", ";">>, "<" >>,
       << <<"&", "g", "t", ";">>, ">" >>,
       << <<"&", "q", "u", "o", "t", ";">>, "\"" >> >>

EntityAt(s, i) ==
    IF \E n \in 1..Len(XmlEntities) : StartsWithAt(s, i, XmlEntities[n][1])
    THEN CHOOSE n \in 1..Len(XmlEntities) : StartsWithAt(s, i, XmlEntities[n][1])
    ELSE 0

\* Entity decoding of an attribute value, left to right
RECURSIVE XmlUnescapeFrom(_, _)
XmlUnescapeFrom(s, i) ==
    IF i > Len(s) THEN <<>>
    ELSE IF EntityAt(s, i) # 0
         THEN <<XmlEntities[EntityAt(s, i)][2]>>
                  \o XmlUnescapeFrom(s, i + Len(XmlEntities[EntityAt(s, i)][1]))
         ELSE <<s[i]>> \o XmlUnescapeFrom(s, i + 1)

XmlUnescape(s) == XmlUnescapeFrom(s, 1)

\* No raw "<" or double quote, and every "&" starts an entity
SafeInAttribute(s) ==
    \A i \in 1..Len(s) :
        /\ s[i] \notin {"<", "\""}
        /\ s[i] = "&" => EntityAt(s, i) # 0

\* C7: the message attribute written for a record decodes back to the
\* record's summary exactly, and holds no raw "<", no raw double quote and no
\* "&" that is not the start of an entity.
C7_MessageRoundTrips ==
    pc = "done" =>
        LET cases == Cases(output)
            written == SortedByFile(errors)
        IN  /\ Len(cases) = Len(written)
            /\ \A k \in 1..Len(cases) :
                   /\ XmlUnescape(cases[k].message) = written[k].error
                   /\ SafeInAttribute(cases[k].message)

\* A summary with all four special characters has been written
C7_Witness ==
    /\ pc = "done"
    /\ Len(errors) = 1
    /\ {"<", ">", "&", "\""} \subseteq Range(errors[1].error)
    /\ Len(Cases(output)) = 1
    /\ Len(Cases(output)[1].message) > Len(errors[1].error)

----------------------------------------------------------------------------
(* Path normalisation.                                                     *)

\* The first index at or after i where old occurs in s, 0 if none
FindFrom(s, old, i) ==
    IF \E j \in i..Len(s) : StartsWithAt(s, j, old)
    THEN CHOOSE j \in i..Len(s) :
             StartsWithAt(s, j, old) /\ \A m \in i..(j - 1) : ~StartsWithAt(s, m, old)
    ELSE 0

\* s without its first occurrence of old
WithoutFirst(s, old) ==
    IF Len(old) = 0 \/ FindFrom(s, old, 1) = 0 THEN s
    ELSE Slice(s, 1, FindFrom(s, old, 1) - 1)
             \o Slice(s, FindFrom(s, old, 1) + Len(old), Len(s))

\* s without every occurrence of old, found left to right, each search
\* starting after the previous occurrence
RECURSIVE WithoutEvery(_, _)
WithoutEvery(s, old) ==
    IF Len(old) = 0 \/ FindFrom(s, old, 1) = 0 THEN s
    ELSE Slice(s, 1, FindFrom(s, old, 1) - 1)
             \o WithoutEvery(Slice(s, FindFrom(s, old, 1) + Len(old), Len(s)), old)

\* The path captured from the k-th header line of the running call's input
CapturedPath(k) == ErrorRegexMatch(input[HeaderPositions(input)[k]])[1]

\* C8 as stated: the record's file is the captured path with only the first
\* occurrence of the prefix removed.
C8_FirstOccurrenceRemoved ==
    pc = "done" =>
        \A k \in 1..Len(OwnRecords) :
            k <= NumHeaders(input) =>
                OwnRecords[k].file = WithoutFirst(CapturedPath(k), basename[self])

\* C8, amended: the record's file is the captured path with every
\* occurrence of the prefix removed (occurrences found left to right, not
\* overlapping; an empty prefix or one that does not occur changes nothing).
C8_EveryOccurrenceRemoved ==
    pc = "done" =>
        /\ Len(OwnRecords) = NumHeaders(input)
        /\ \A k \in 1..Len(OwnRecords) :
               OwnRecords[k].file = WithoutEvery(CapturedPath(k), basename[self])

\* A path in which the prefix occurs twice, with both occurrences removed
C8_Witness ==
    /\ pc = "done"
    /\ Len(OwnRecords) = 1 /\ NumHeaders(input) = 1
    /\ Len(basename[self]) > 0
    /\ Len(OwnRecords[1].file) = Len(CapturedPath(1)) - 2 * Len(basename[self])
    /\ Len(OwnRecords[1].file) > 0

----------------------------------------------------------------------------
(* Sequences that fail re-validation.                                      *)

\* The step about to be taken seals current_error
Seals ==
    /\ pc = "loop"
    /\ Len(current_error) > 0
    /\ pos <= Len(input) => StartsError(input[pos])

\* C9: sealing a pending sequence whose first line does not match the header
\* pattern adds no record and changes none, logs one warning, and the run
\* goes on: the line that caused the sealing opens the next sequence, and a
\* call in which a sequence was dropped still yields one record per header
\* line and writes its report.
C9_FailedSealOnlyDrops ==
    /\ [][(Seals /\ ~IsHeader(current_error[1])) =>
              /\ errors' = errors
              /\ warnings' = warnings + 1
              /\ IF pos <= Len(input)
                 THEN pc' = "loop" /\ pos' = pos + 1 /\ current_error' = <<input[pos]>>
                 ELSE pc' = "print"]_vars
    /\ [][(pc = "print" /\ warnings > warnings0) =>
              /\ pc' = "done"
              /\ Len(errors') - Len(errors0') = NumHeaders(input')
              /\ output' = PrintJunitFile(errors')
              /\ Len(output') >= 2]_vars

\* A call that dropped a sequence ahead of a header line and has returned
C9_Witness ==
    /\ pc = "done"
    /\ warnings > warnings0
    /\ \E i, j \in 1..Len(input) :
           i < j /\ StartsError(input[i]) /\ ~IsHeader(input[i]) /\ IsHeader(input[j])
    /\ Len(OwnRecords) > 0
    /\ Len(Cases(output)) > 0

----------------------------------------------------------------------------
(* The scenario of section 8.                                              *)

\* The running call is the scenario: its five lines, on an instance with
\* prefix "foo/", begun with an empty collection, and it has returned
ScenarioDone ==
    /\ DoneFresh
    /\ input \in {Stream(ScenarioInput, nl) : nl \in BOOLEAN}
    /\ basename[self] = ScenarioPrefix

BarCpp == <<"b", "a", "r", ".", "c", "p", "p">>

----------------------------------------------------------------------------
(* Inputs without a file-related line.                                     *)

NoFileRelatedLine(in) == \A i \in 1..Len(in) : ~StartRegexSearch(in[i])

\* The report of an empty collection: the root element and nothing in it
EmptyRootReport ==
    <<[el       |-> "testsuites",
       id       |-> <<"1">>,
       name     |-> "Clang-Tidy",
       tests    |-> <<"0">>,
       errors   |-> <<"0">>,
       failures |-> <<"0">>,
       time     |-> <<"0">>],
      [el |-> "/testsuites"]>>

\* C11: when no line of the input is file-related (the empty input
\* included), a conversion on a fresh collection keeps pending empty at every
\* point, yields no record, and writes the empty-root report: count 0 and no
\* group.
C11_NoFileRelatedLineEmptyReport ==
    (pc \in {"loop", "print", "done"} /\ errors0 = <<>> /\ NoFileRelatedLine(input)) =>
        /\ current_error = <<>>
        /\ errors = <<>>
        /\ pc = "done" => output = EmptyRootReport

\* A returned conversion of several lines, none of them file-related
C11_Witness ==
    /\ DoneFresh
    /\ pos > Len(input)
    /\ Len(input) >= 2
    /\ NoFileRelatedLine(input)
    /\ Len(Suites(output)) = 0

----------------------------------------------------------------------------
(* Order of reads, appends and writes.                                     *)

\* C12: within a call nothing is written to the output before the input is
\* exhausted and the last pending sequence is sealed: every step that writes
\* comes after the loop and changes no record, and every step that reads a
\* line or appends a record finds and leaves the output empty.
C12_WritesAfterReadsAndAppends ==
    /\ [][output' # output /\ Len(output') > 0 =>
              /\ pc = "print" /\ pc' = "done"
              /\ pos > Len(input)
              /\ errors' = errors /\ pos' = pos /\ input' = input]_vars
    /\ [][(pc = "loop" /\ (pos' # pos \/ errors' # errors)) =>
              Len(output) = 0 /\ Len(output') = 0]_vars

\* A call that read several lines, sealed a record and then wrote its report
C12_Witness ==
    /\ pc = "done"
    /\ Len(input) >= 2
    /\ pos = Len(input) + 1
    /\ Len(OwnRecords) > 0
    /\ Len(output) >= 5

----------------------------------------------------------------------------
(* Serializing twice.                                                      *)

----------------------------------------------------------------------------
(* File-related lines that are no headers.                                 *)

\* C14: a file-related line that does not match the full header pattern is
\* treated as detail even when it ends with a bracket tag (it is appended to
\* pending, nothing is sealed, the collection is unchanged), and only a line
\* that matches the full header pattern seals pending and starts a new one.
C14_NonHeaderIsDetail ==
    [][(pc = "loop" /\ pos <= Len(input)) =>
           IF StartRegexSearch(input[pos]) /\ ~IsHeader(input[pos])
           THEN /\ current_error' = Append(current_error, input[pos])
                /\ errors' = errors
                /\ warnings' = warnings
           ELSE current_error' = <<input[pos]>> => IsHeader(input[pos])]_vars

----------------------------------------------------------------------------
(* What pending holds.                                                     *)

\* The lines the loop has read so far
LinesRead == Slice(input, 1, pos - 1)

Classifying == pc \in {"loop", "print"}

\* C15 as stated: whenever pending is non-empty its first element matches
\* the full header pattern, and pending is empty until the first header line
\* has been read.
C15_PendingStartsWithHeader ==
    Classifying =>
        /\ Len(current_error) > 0 => IsHeader(current_error[1])
        /\ NumHeaders(LinesRead) = 0 => current_error = <<>>

\* C15, amended: whenever pending is non-empty its first element is a
\* file-related line (it contains ":<digits>:<digits>:"), and pending is empty
\* until the first file-related line has been read.
C15_PendingStartsWithFileRelatedLine ==
    Classifying =>
        /\ Len(current_error) > 0 => StartRegexSearch(current_error[1])
        /\ NoFileRelatedLine(LinesRead) => current_error = <<>>

\* Pending opened by a file-related line that is no header, and grown since
C15_Witness ==
    /\ pc = "loop"
    /\ Len(current_error) >= 2
    /\ ~IsHeader(current_error[1])
    /\ ~StartRegexSearch(current_error[2])

----------------------------------------------------------------------------
(* Records and the header lines they come from.                            *)

DigitValue ==
    ("0" :> 0) @@ ("1" :> 1) @@ ("2" :> 2) @@ ("3" :> 3) @@ ("4" :> 4) @@
    ("5" :> 5) @@ ("6" :> 6) @@ ("7" :> 7) @@ ("8" :> 8) @@ ("9" :> 9)

RECURSIVE Power10(_)
Power10(n) == IF n = 0 THEN 1 ELSE 10 * Power10(n - 1)

\* The number a string of decimal digits denotes
DecimalValue(s) ==
    Sum([i \in 1..Len(s) |-> DigitValue[s[i]] * Power10(Len(s) - i)])

\* A line without its line terminator
Text(line) ==
    IF Len(line) > 0 /\ line[Len(line)] = NL THEN Slice(line, 1, Len(line) - 1)
    ELSE line

\* The k-th header line of the running call's input
HeaderLine(k) == input[HeaderPositions(input)[k]]

\* rec carries the line number, column number, summary and bracket tag that
\* the header line shows after its path
BuiltFrom(rec, line) ==
    LET t == Text(line)
        c1 == NextColon(t, 0)
        c2 == NextColon(t, c1)
        c3 == NextColon(t, c2)
        tag == rec.error_identifier
    IN  /\ IsHeader(line)
        /\ rec.line = DecimalValue(Slice(t, c1 + 1, c2 - 1))
        /\ rec.column = DecimalValue(Slice(t, c2 + 1, c3 - 1))
        /\ t = Slice(t, 1, c3) \o <<" ">> \o rec.error \o <<" ">> \o tag
        /\ Len(rec.error) > 0
        /\ Len(tag) >= 3 /\ tag[1] = "[" /\ tag[Len(tag)] = "]"
        /\ \A i \in 2..Len(tag) : tag[i] # "["

\* C16: every record comes from exactly one input line that matches the
\* full header pattern, the k-th record from the k-th such line, and its
\* line, column, summary and identifier are that line's captures: the numbers
\* as integers, the identifier with its brackets, the summary without the
\* last bracket tag.
C16_RecordsCarryHeaderCaptures ==
    pc = "done" =>
        /\ Len(OwnRecords) = NumHeaders(input)
        /\ \A k \in 1..Len(OwnRecords) : BuiltFrom(OwnRecords[k], HeaderLine(k))

\* Two records, the first with a two-digit line number that is not its
\* column number, and with detail lines between the header lines
C16_Witness ==
    /\ pc = "done"
    /\ Len(OwnRecords) = 2
    /\ OwnRecords[1].line >= 10
    /\ OwnRecords[1].column # OwnRecords[1].line
    /\ Len(OwnRecords[1].description) > 0
    /\ Len(OwnRecords[2].error_identifier) > 3

----------------------------------------------------------------------------
(* The range of line and column numbers.                                   *)

\* The digits between the first and second colon (n = 1) or between the
\* second and third colon (n = 2) of a header line
DigitField(line, n) ==
    LET c1 == NextColon(line, 0)
        c2 == NextColon(line, c1)
        c3 == NextColon(line, c2)
    IN  IF n = 1 THEN Slice(line, c1 + 1, c2 - 1) ELSE Slice(line, c2 + 1, c3 - 1)

AllZeros(s) == \A i \in 1..Len(s) : s[i] = "0"

\* C17 as stated: every record in the collection has a line number of at
\* least 1 and a column number of at least 1, for every input.
C17_LineAndColumnPositive ==
    \A i \in 1..Len(errors) : errors[i].line >= 1 /\ errors[i].column >= 1

\* C17: every record in the collection has a line number and a column number
\* that are natural numbers; a number is 0 exactly when the digits the header
\* line shows for it are all zeros.
C17_LineAndColumnNonNegative ==
    /\ \A i \in 1..Len(errors) : errors[i].line \in Nat /\ errors[i].column \in Nat
    /\ pc = "done" =>
           \A k \in 1..Len(OwnRecords) :
               /\ OwnRecords[k].line = 0 <=> AllZeros(DigitField(HeaderLine(k), 1))
               /\ OwnRecords[k].column = 0 <=> AllZeros(DigitField(HeaderLine(k), 2))

\* A record with line number 0 next to one with a positive line number
C17_Witness ==
    /\ pc = "done"
    /\ \E i, j \in 1..Len(OwnRecords) :
           /\ OwnRecords[i].line = 0 /\ OwnRecords[i].column >= 1
           /\ OwnRecords[j].line >= 1

----------------------------------------------------------------------------
(* Newlines in the detail.                                                 *)

NewlineTerminated(in) ==
    \A i \in 1..Len(in) : Len(in[i]) > 0 /\ in[i][Len(in[i])] = NL

\* The first position after i whose line starts a new pending sequence, or
\* the position after the last line
RECURSIVE NextStart(_, _)
NextStart(in, i) ==
    IF i >= Len(in) THEN Len(in) + 1
    ELSE IF StartsError(in[i + 1]) THEN i + 1
    ELSE NextStart(in, i + 1)

\* The lines collected behind the k-th header line
ContinuationLines(in, k) ==
    LET h == HeaderPositions(in)[k]
    IN  Slice(in, h + 1, NextStart(in, h) - 1)

\* The texts of the lines with one newline between consecutive lines
RECURSIVE OneNewlineBetween(_)
OneNewlineBetween(ls) ==
    IF Len(ls) = 0 THEN <<>>
    ELSE IF Len(ls) = 1 THEN Text(ls[1])
    ELSE Text(ls[1]) \o <<NL>> \o OneNewlineBetween(Tail(ls))

\* C18: when every input line ends with a newline, the detail of a record
\* with continuation lines l1..ln holds each line's text once, with exactly
\* one newline between consecutive lines (the last line with or without its
\* terminator): no empty line is inserted between continuation lines.
C18_OneNewlineBetweenLines ==
    (pc = "done" /\ NewlineTerminated(input)) =>
        \A k \in 1..Len(OwnRecords) :
            LET ls == ContinuationLines(input, k)
            IN  Len(ls) > 0 =>
                    OwnRecords[k].description \in
                        {OneNewlineBetween(ls), OneNewlineBetween(ls) \o <<NL>>}

----------------------------------------------------------------------------
(* The attributes written without escaping.                                *)

MarkupChars == {"&", "<", ">", "\""}

NoMarkup(s) == \A i \in 1..Len(s) : s[i] \notin MarkupChars

\* C19: for every input and every prefix, the file of every record holds
\* only characters of the header pattern's path class and its identifier is
\* a bracketed string over the tag class, so the name of every written
\* <testsuite> and the id and name of every written <testcase>, which are
\* written unescaped, hold none of & < > ".
C19_UnescapedAttributesHoldNoMarkup ==
    /\ \A i \in 1..Len(errors) :
           LET tag == errors[i].error_identifier
           IN  /\ AllIn(errors[i].file, PathChars)
               /\ Len(tag) >= 2 /\ tag[1] = "[" /\ tag[Len(tag)] = "]"
               /\ AllIn(Slice(tag, 2, Len(tag) - 1), TagChars)
    /\ \A w \in 1..Len(output) :
           /\ output[w].el = "testsuite" => NoMarkup(output[w].name)
           /\ output[w].el = "testcase" =>
                  NoMarkup(output[w].id) /\ NoMarkup(output[w].name)

\* A report written by a converter whose prefix holds a markup character,
\* with a named <testsuite> and a <testcase> in it
C19_Witness ==
    /\ pc = "done"
    /\ ~NoMarkup(basename[self])
    /\ \E w \in 1..Len(output) :
           output[w].el = "testsuite" /\ Len(output[w].name) > 0
    /\ \E w \in 1..Len(output) : output[w].el = "testcase"

====
